---- MODULE Spec2Model ----
(***************************************************************************)
(* MQTT 3.1 control packet codec (wolfeidau/mqtt).                         *)
(*                                                                         *)
(* The repository holds two generations of the codec:                      *)
(*   - the Message API: messages.go (Header, Connect, ConnAck, Publish,    *)
(*     the ack family, Subscribe, SubAck, Unsubscribe) with its helpers    *)
(*     and DecodeOneMessage/NewMessage in src/unnamed/part_002;            *)
(*   - the Mqtt-struct API: Encode/DecodeRead of mqtt.go.                  *)
(* Bytes are integers 0..255, buffers and strings are sequences of bytes,  *)
(* an io.Reader over a bytes.Buffer is the sequence of bytes still unread. *)
(* Go's error values are strings; a raiseError abort travels in the "err"  *)
(* field of the decode context until the deferred recoverError turns it    *)
(* into the call's error; a runtime panic that no recoverError handles is  *)
(* the "panic" flag of a result.                                           *)
(***************************************************************************)
EXTENDS Integers, Sequences, FiniteSets, TLC

VARIABLES
    buf,    \* the bytes.Buffer the encoders write and the decoders read
    orig,   \* the message whose encoding buf holds (NilMsg: none)
    cut,    \* buf is a proper prefix of an encoded packet
    res,    \* the last call: its name, its inputs and what it returned
    calls   \* the calls running concurrently: the package-level variables
            \* they share and, per goroutine, the state of its call

vars == <<buf, orig, cut, res, calls>>

\* ---------------------------------------------------------------- bounds

\* Longest string (topic, client id, ...) of a sampled message.
MaxStrLen == 2
\* Longest topic list of a sampled SUBSCRIBE / SUBACK / UNSUBSCRIBE.
MaxTopics == 2
\* Longest PUBLISH payload of a sampled message.
MaxData == 1
\* Longest body of a packet fed to the decoder by the peer.
MaxFeed == 3

\* ---------------------------------------------------------------- errors

nil == "nil"
EOF == "EOF"
ErrUnexpectedEOF == "unexpected EOF"
badMsgTypeError == "mqtt: message type is invalid"
badQosError == "mqtt: QoS is invalid"
badWillQosError == "mqtt: will QoS is invalid"
badLengthEncodingError == "mqtt: remaining length field exceeded maximum of 4 bytes"
badReturnCodeError == "mqtt: is invalid"
dataExceedsPacketError == "mqtt: data exceeds packet length"
msgTooLongError == "mqtt: message is too long"

\* ---------------------------------------------------------------- enumerations

QosAtMostOnce == 0
QosAtLeastOnce == 1
QosExactlyOnce == 2
qosFirstInvalid == 3

QosLevel_IsValid(qos) == qos < qosFirstInvalid

QosLevel_HasId(qos) == qos = QosAtLeastOnce \/ qos = QosExactlyOnce

RetCodeAccepted == 0
retCodeFirstInvalid == 6

ReturnCode_IsValid(rc) == rc >= RetCodeAccepted /\ rc < retCodeFirstInvalid

MsgConnect == 1
MsgConnAck == 2
MsgPublish == 3
MsgPubAck == 4
MsgPubRec == 5
MsgPubRel == 6
MsgPubComp == 7
MsgSubscribe == 8
MsgSubAck == 9
MsgUnsubscribe == 10
MsgUnsubAck == 11
MsgPingReq == 12
MsgPingResp == 13
MsgDisconnect == 14
msgTypeFirstInvalid == 15

MessageType_IsValid(mt) == mt >= MsgConnect /\ mt < msgTypeFirstInvalid

\* ---------------------------------------------------------------- integers

MaxInt32 == 2147483647

\* int32(a + b) for Go ints 0 <= a, b <= MaxInt32: the sum when it fits,
\* else the sum less 2^32 (the low 32 bits, two's complement).
Int32Sum(a, b) ==
    IF a <= MaxInt32 - b THEN a + b
    ELSE (a - MaxInt32 - 1) + (b - MaxInt32 - 1)

\* x << n on a uint8 operand: the result keeps the operand's 8 bits.
Shl8(x, n) == (x * (2 ^ n)) % 256

boolToByte(val) == IF val THEN 1 ELSE 0

Reverse(s) == [i \in 1..Len(s) |-> s[Len(s) + 1 - i]]

\* ---------------------------------------------------------------- io

\* io.ReadFull(r, b) with len(b) = n on a bytes.Buffer holding r: n bytes, or
\* EOF when nothing could be read, or ErrUnexpectedEOF after a short read
\* (which drains the buffer). n = 0 reads nothing and succeeds.
ReadFull(r, n) ==
    IF n = 0 THEN [err |-> nil, b |-> <<>>, r |-> r]
    ELSE IF Len(r) = 0 THEN [err |-> EOF, b |-> <<>>, r |-> r]
    ELSE IF Len(r) < n THEN [err |-> ErrUnexpectedEOF, b |-> r, r |-> <<>>]
    ELSE [err |-> nil, b |-> SubSeq(r, 1, n), r |-> SubSeq(r, n + 1, Len(r))]

\* ---------------------------------------------------------------- decode primitives
\* A decode context c is [r, rem, err, v]: the reader, *packetRemaining, the
\* raiseError abort in flight (nil: none) and the value of the last read.  A
\* primitive entered with an abort in flight does nothing: the stack is
\* unwinding.

Ctx(r, packetRemaining) == [r |-> r, rem |-> packetRemaining, err |-> nil, v |-> 0]

raiseError(c, err) == [c EXCEPT !.err = err]

\* recover() with the abort p in flight (nil: none).  It stops the panic and
\* returns its value only when the deferred function itself calls it; called
\* one call deeper it returns nil and the panic stays in flight.
recover(p, calledByDeferred) == IF calledByDeferred THEN p ELSE nil

\* recoverError(existingErr) as the deferred closures call it,
\* err = recoverError(err), with the abort p in flight: [err, abort], the
\* error returned and the abort still in flight afterwards.  Its recover() is
\* not called by the deferred function itself.
recoverError(existingErr, p) ==
    IF recover(p, FALSE) # nil
    THEN [err |-> recover(p, FALSE), abort |-> nil]
    ELSE [err |-> existingErr, abort |-> p]

\* getUint8 without *packetRemaining--.
getUint8_noDecrement(c) ==
    IF c.err # nil THEN c
    ELSE IF c.rem < 1 THEN raiseError(c, dataExceedsPacketError)
    ELSE LET rd == ReadFull(c.r, 1) IN
         IF rd.err # nil THEN raiseError([c EXCEPT !.r = rd.r], rd.err)
         ELSE [r |-> rd.r, rem |-> c.rem, err |-> nil, v |-> rd.b[1]]

getUint8(c) ==
    IF c.err # nil THEN c
    ELSE IF c.rem < 1 THEN raiseError(c, dataExceedsPacketError)
    ELSE LET rd == ReadFull(c.r, 1) IN
         IF rd.err # nil THEN raiseError([c EXCEPT !.r = rd.r], rd.err)
         ELSE [r |-> rd.r, rem |-> c.rem - 1, err |-> nil, v |-> rd.b[1]]

getUint16(c) ==
    IF c.err # nil THEN c
    ELSE IF c.rem < 2 THEN raiseError(c, dataExceedsPacketError)
    ELSE LET rd == ReadFull(c.r, 2) IN
         IF rd.err # nil THEN raiseError([c EXCEPT !.r = rd.r], rd.err)
         ELSE [r |-> rd.r, rem |-> c.rem - 2, err |-> nil,
               v |-> (Shl8(rd.b[1], 8) + rd.b[2]) % 65536]

\* getString after its getUint16: c1.v is strLen.
getString_bytes(c1, rd) ==
    IF rd.err # nil THEN raiseError([c1 EXCEPT !.r = rd.r], rd.err)
    ELSE [r |-> rd.r, rem |-> c1.rem - c1.v, err |-> nil, v |-> rd.b]

getString_len(c1) ==
    IF c1.err # nil THEN c1
    ELSE IF c1.rem < c1.v THEN raiseError(c1, dataExceedsPacketError)
    ELSE getString_bytes(c1, ReadFull(c1.r, c1.v))

getString(c) == getString_len(getUint16(c))

\* ---------------------------------------------------------------- encode primitives

setUint8(val, b) == Append(b, val % 256)

setUint16(val, b) == Append(Append(b, (val \div 256) % 256), val % 256)

setString(val, b) == setUint16(Len(val) % 65536, b) \o val

\* ---------------------------------------------------------------- remaining length

\* decodeLength(r): [err, v, r].  The 7-bit groups land on disjoint bits, so
\* v |= g << shift adds g * 2^shift.
RECURSIVE decodeLengthFrom(_, _, _, _)
decodeLengthFrom(r, i, v, shift) ==
    IF i >= 4 THEN [err |-> badLengthEncodingError, v |-> 0, r |-> r]
    ELSE LET rd == ReadFull(r, 1) IN
         IF rd.err # nil THEN [err |-> rd.err, v |-> 0, r |-> rd.r]
         ELSE LET b == rd.b[1]
                  v2 == v + (b % 128) * (2 ^ shift)
              IN  IF b \div 128 = 0 THEN [err |-> nil, v |-> v2, r |-> rd.r]
                  ELSE decodeLengthFrom(rd.r, i + 1, v2, shift + 7)

\* decodeLength with a loop that starts at i = 1: at most 3 bytes.
decodeLength_from1(r) == decodeLengthFrom(r, 1, 0, 0)

decodeLength(r) == decodeLengthFrom(r, 0, 0, 0)

\* The digits as the loop writes them to lbuf: low group first, the
\* continuation bit on every digit but the last written.
RECURSIVE lengthDigits(_)
lengthDigits(length) ==
    IF length > 0
    THEN LET digit == length % 128
             rest == length \div 128
         IN  <<IF rest > 0 THEN digit + 128 ELSE digit>> \o lengthDigits(rest)
    ELSE <<>>

\* encodeLength(length, buf): the bytes appended to buf.  The copy loop
\* writes blen[len(blen)-i] for i = 1..len(blen): lbuf from its last byte to
\* its first.
encodeLength(length) ==
    IF length = 0 THEN <<0>>
    ELSE Reverse(lengthDigits(length))

\* ---------------------------------------------------------------- fixed header

ZeroHeader == [DupFlag |-> FALSE, Retain |-> FALSE, QosLevel |-> 0]

\* Header.Encode without its message type check.
Header_Encode_noTypeCheck(hdr, msgType, remainingLength) ==
    IF ~QosLevel_IsValid(hdr.QosLevel) THEN [err |-> badQosError, out |-> <<>>]
    ELSE [err |-> nil,
          out |-> <<Shl8(msgType, 4) + Shl8(boolToByte(hdr.DupFlag), 3)
                    + Shl8(hdr.QosLevel, 1) + boolToByte(hdr.Retain)>>
                  \o encodeLength(remainingLength)]

\* Header.Encode(w, msgType, remainingLength): [err, out], out the bytes
\* written to w.  Both checks come before the first write.  The four fields
\* sit on disjoint bits once the checks have passed, so |= adds.
Header_Encode(hdr, msgType, remainingLength) ==
    IF ~QosLevel_IsValid(hdr.QosLevel) THEN [err |-> badQosError, out |-> <<>>]
    ELSE IF ~MessageType_IsValid(msgType) THEN [err |-> badMsgTypeError, out |-> <<>>]
    ELSE LET val == Shl8(msgType, 4) + Shl8(boolToByte(hdr.DupFlag), 3)
                    + Shl8(hdr.QosLevel, 1) + boolToByte(hdr.Retain)
         IN  [err |-> nil, out |-> <<val>> \o encodeLength(remainingLength)]

\* Header.Decode(r): [msgType, hdr, remainingLength, err, r].  msgType and
\* *hdr are assigned before decodeLength runs, so they keep their values when
\* decodeLength aborts; remainingLength is then still 0.  abort is the
\* raiseError abort still in flight when the deferred function has run.
Header_Decode(r) ==
    LET rd == ReadFull(r, 1) IN
    IF rd.err # nil
    THEN [msgType |-> 0, hdr |-> ZeroHeader, remainingLength |-> 0,
          err |-> recoverError(rd.err, nil).err, abort |-> nil, r |-> rd.r]
    ELSE LET byte1 == rd.b[1]
             h == [DupFlag |-> (byte1 \div 8) % 2 = 1,
                   QosLevel |-> (byte1 \div 2) % 4,
                   Retain |-> byte1 % 2 = 1]
             dl == decodeLength(rd.r)
         IN  [msgType |-> byte1 \div 16, hdr |-> h,
              remainingLength |-> IF dl.err = nil THEN dl.v ELSE 0,
              err |-> recoverError(nil, dl.err).err,
              abort |-> recoverError(nil, dl.err).abort, r |-> dl.r]

\* writeMessage(w, msgType, hdr, payloadBuf) by sizes, for a payloadBuf of
\* n1 + n2 bytes: [err, hdr, n1, n2] with hdr the fixed header bytes written
\* and n1 + n2 the payload bytes written after them.
writeMessageSized(msgType, hdr, n1, n2) ==
    LET h == Header_Encode(hdr, msgType, Int32Sum(n1, n2)) IN
    IF h.err # nil THEN [err |-> h.err, hdr |-> <<>>, n1 |-> 0, n2 |-> 0]
    ELSE [err |-> nil, hdr |-> h.out, n1 |-> n1, n2 |-> n2]

\* writeMessage(w, msgType, hdr, payloadBuf): [err, out].
writeMessage(msgType, hdr, payloadBuf) ==
    LET ws == writeMessageSized(msgType, hdr, Len(payloadBuf), 0) IN
    IF ws.err # nil THEN [err |-> ws.err, out |-> <<>>]
    ELSE [err |-> nil, out |-> ws.hdr \o payloadBuf]

\* ---------------------------------------------------------------- messages
\* A message is a record whose "type" names its Go type by the message type
\* constant; NilMsg is the nil Message interface value.

NilMsg == [type |-> 0]

new_Connect ==
    [type |-> MsgConnect, Header |-> ZeroHeader, ProtocolName |-> <<>>,
     ProtocolVersion |-> 0, WillRetain |-> FALSE, WillFlag |-> FALSE,
     CleanSession |-> FALSE, WillQos |-> 0, KeepAliveTimer |-> 0,
     ClientId |-> <<>>, WillTopic |-> <<>>, WillMessage |-> <<>>,
     UsernameFlag |-> FALSE, PasswordFlag |-> FALSE,
     Username |-> <<>>, Password |-> <<>>]

new_ConnAck == [type |-> MsgConnAck, Header |-> ZeroHeader, ReturnCode |-> 0]

new_Publish ==
    [type |-> MsgPublish, Header |-> ZeroHeader, TopicName |-> <<>>,
     MessageId |-> 0, Data |-> <<>>]

new_Ack(msgType) == [type |-> msgType, Header |-> ZeroHeader, MessageId |-> 0]

new_Subscribe ==
    [type |-> MsgSubscribe, Header |-> ZeroHeader, MessageId |-> 0,
     Topics |-> <<>>, TopicsQos |-> <<>>]

new_SubAck ==
    [type |-> MsgSubAck, Header |-> ZeroHeader, MessageId |-> 0, TopicsQos |-> <<>>]

new_Unsubscribe ==
    [type |-> MsgUnsubscribe, Header |-> ZeroHeader, MessageId |-> 0, Topics |-> <<>>]

AckTypes == {MsgPubAck, MsgPubRec, MsgPubRel, MsgPubComp, MsgUnsubAck}

NewMessage(msgType) ==
    CASE msgType = MsgConnect -> [msg |-> new_Connect, err |-> nil]
      [] msgType = MsgConnAck -> [msg |-> new_ConnAck, err |-> nil]
      [] msgType = MsgPublish -> [msg |-> new_Publish, err |-> nil]
      [] msgType = MsgPubAck -> [msg |-> new_Ack(MsgPubAck), err |-> nil]
      [] msgType = MsgPubRec -> [msg |-> new_Ack(MsgPubRec), err |-> nil]
      [] msgType = MsgPubRel -> [msg |-> new_Ack(MsgPubRel), err |-> nil]
      [] msgType = MsgPubComp -> [msg |-> new_Ack(MsgPubComp), err |-> nil]
      [] msgType = MsgSubscribe -> [msg |-> new_Subscribe, err |-> nil]
      [] msgType = MsgUnsubAck -> [msg |-> new_Ack(MsgUnsubAck), err |-> nil]
      [] msgType = MsgSubAck -> [msg |-> new_SubAck, err |-> nil]
      [] msgType = MsgUnsubscribe -> [msg |-> new_Unsubscribe, err |-> nil]
      [] OTHER -> [msg |-> NilMsg, err |-> badMsgTypeError]

\* ---------------------------------------------------------------- encoders
\* Each encoder is [err, out]: the error returned and the bytes written to w.

\* Connect.Encode writing the password before the username.
Connect_Encode_passwordFirst(msg) ==
    IF ~QosLevel_IsValid(msg.WillQos) THEN [err |-> badWillQosError, out |-> <<>>]
    ELSE LET flags == Shl8(boolToByte(msg.UsernameFlag), 7)
                      + Shl8(boolToByte(msg.PasswordFlag), 6)
                      + Shl8(boolToByte(msg.WillRetain), 5)
                      + Shl8(msg.WillQos, 3)
                      + Shl8(boolToByte(msg.WillFlag), 2)
                      + Shl8(boolToByte(msg.CleanSession), 1)
             b5 == setString(msg.ClientId, setUint16(msg.KeepAliveTimer,
                       Append(setUint8(msg.ProtocolVersion,
                                       setString(msg.ProtocolName, <<>>)), flags)))
             b6 == IF msg.WillFlag
                   THEN setString(msg.WillMessage, setString(msg.WillTopic, b5))
                   ELSE b5
             b7 == IF msg.PasswordFlag THEN setString(msg.Password, b6) ELSE b6
             b8 == IF msg.UsernameFlag THEN setString(msg.Username, b7) ELSE b7
         IN  writeMessage(MsgConnect, msg.Header, b8)

Connect_Encode(msg) ==
    IF ~QosLevel_IsValid(msg.WillQos) THEN [err |-> badWillQosError, out |-> <<>>]
    ELSE LET flags == Shl8(boolToByte(msg.UsernameFlag), 7)
                      + Shl8(boolToByte(msg.PasswordFlag), 6)
                      + Shl8(boolToByte(msg.WillRetain), 5)
                      + Shl8(msg.WillQos, 3)
                      + Shl8(boolToByte(msg.WillFlag), 2)
                      + Shl8(boolToByte(msg.CleanSession), 1)
             b1 == setString(msg.ProtocolName, <<>>)
             b2 == setUint8(msg.ProtocolVersion, b1)
             b3 == Append(b2, flags)
             b4 == setUint16(msg.KeepAliveTimer, b3)
             b5 == setString(msg.ClientId, b4)
             b6 == IF msg.WillFlag
                   THEN setString(msg.WillMessage, setString(msg.WillTopic, b5))
                   ELSE b5
             b7 == IF msg.UsernameFlag THEN setString(msg.Username, b6) ELSE b6
             b8 == IF msg.PasswordFlag THEN setString(msg.Password, b7) ELSE b7
         IN  writeMessage(MsgConnect, msg.Header, b8)

ConnAck_Encode(msg) ==
    writeMessage(MsgConnAck, msg.Header, setUint8(msg.ReturnCode, <<0>>))

\* The body of a PUBLISH before the payload: topic, then the message id
\* when the header QoS has one.
Publish_head(msg) ==
    LET b1 == setString(msg.TopicName, <<>>) IN
    IF QosLevel_HasId(msg.Header.QosLevel) THEN setUint16(msg.MessageId, b1) ELSE b1

Publish_Encode(msg) ==
    writeMessage(MsgPublish, msg.Header, Publish_head(msg) \o msg.Data)

AckCommon_encode(msg, msgType) ==
    writeMessage(msgType, msg.Header, setUint16(msg.MessageId, <<>>))

RECURSIVE Subscribe_topics(_, _, _, _)
Subscribe_topics(topics, topicsQos, i, b) ==
    IF i > Len(topics) THEN b
    ELSE Subscribe_topics(topics, topicsQos, i + 1,
                          setUint8(topicsQos[i], setString(topics[i], b)))

Subscribe_Encode(msg) ==
    LET b1 == IF QosLevel_HasId(msg.Header.QosLevel)
              THEN setUint16(msg.MessageId, <<>>) ELSE <<>>
    IN  writeMessage(MsgSubscribe, msg.Header,
                     Subscribe_topics(msg.Topics, msg.TopicsQos, 1, b1))

RECURSIVE SubAck_qos(_, _, _)
SubAck_qos(topicsQos, i, b) ==
    IF i > Len(topicsQos) THEN b
    ELSE SubAck_qos(topicsQos, i + 1, setUint8(topicsQos[i], b))

SubAck_Encode(msg) ==
    writeMessage(MsgSubAck, msg.Header,
                 SubAck_qos(msg.TopicsQos, 1, setUint16(msg.MessageId, <<>>)))

RECURSIVE Unsubscribe_topics(_, _, _)
Unsubscribe_topics(topics, i, b) ==
    IF i > Len(topics) THEN b
    ELSE Unsubscribe_topics(topics, i + 1, setString(topics[i], b))

Unsubscribe_Encode(msg) ==
    LET b1 == IF QosLevel_HasId(msg.Header.QosLevel)
              THEN setUint16(msg.MessageId, <<>>) ELSE <<>>
    IN  writeMessage(MsgUnsubscribe, msg.Header, Unsubscribe_topics(msg.Topics, 1, b1))

\* msg.Encode(w) through the Message interface.
Message_Encode(msg) ==
    CASE msg.type = MsgConnect -> Connect_Encode(msg)
      [] msg.type = MsgConnAck -> ConnAck_Encode(msg)
      [] msg.type = MsgPublish -> Publish_Encode(msg)
      [] msg.type \in AckTypes -> AckCommon_encode(msg, msg.type)
      [] msg.type = MsgSubscribe -> Subscribe_Encode(msg)
      [] msg.type = MsgSubAck -> SubAck_Encode(msg)
      [] msg.type = MsgUnsubscribe -> Unsubscribe_Encode(msg)

\* ---------------------------------------------------------------- decoders
\* msg.Decode(r, hdr, packetRemaining) is [msg, err, abort, r, rem]: *msg as
\* the call leaves it, the error returned, the raiseError abort that leaves
\* the call as a panic (nil: the call returns), the reader and the value of
\* packetRemaining at the end.  The hdr argument is not read by any of
\* the decoders; the QoS they test is the receiver's msg.Header.QosLevel.
\* A decoder is a pipeline over d = [msg, c]: the message so far and the
\* decode context.

Rd(msg, c) == [msg |-> msg, c |-> c]

\* The deferred err = recoverError(err) at the end of a decoder, err being
\* the decoder's own result.
Deferred(msg, re, c) ==
    [msg |-> msg, err |-> re.err, abort |-> re.abort, r |-> c.r, rem |-> c.rem]

\* A decoder that reached a return statement: no abort is in flight.
Decoded(msg, err, c) == Deferred(msg, recoverError(err, nil), c)

\* A decoder left by an abort: its named result err is still nil.
Recovered(d) == Deferred(d.msg, recoverError(nil, d.c.err), d.c)

\* msg.field = <read>: the assignment is not reached when the read aborts.
Assign(d, field, c1) ==
    Rd(IF c1.err = nil THEN [d.msg EXCEPT ![field] = c1.v] ELSE d.msg, c1)

ReadUint8Into(d, field) == Assign(d, field, getUint8(d.c))

ReadUint16Into(d, field) == Assign(d, field, getUint16(d.c))

ReadStringInto(d, field) == Assign(d, field, getString(d.c))

\* The five locals of Connect.Decode, read in order, with the context.
Local(l, name, c1) == [l EXCEPT !.c = c1, ![name] = c1.v]

Connect_locals(r, packetRemaining) ==
    Local(Local(Local(Local(Local(
        [c |-> Ctx(r, packetRemaining), protocolName |-> <<>>, protocolVersion |-> 0,
         flags |-> 0, keepAliveTimer |-> 0, clientId |-> <<>>],
        "protocolName", getString(Ctx(r, packetRemaining))),
        "protocolVersion", getUint8(getString(Ctx(r, packetRemaining)))),
        "flags", getUint8(getUint8(getString(Ctx(r, packetRemaining))))),
        "keepAliveTimer", getUint16(getUint8(getUint8(getString(Ctx(r, packetRemaining)))))),
        "clientId",
        getString(getUint16(getUint8(getUint8(getString(Ctx(r, packetRemaining)))))))

\* *msg = Connect{...}: every field not named, the Header among them, is zero.
Connect_struct(msg, l) ==
    IF l.c.err # nil THEN Rd(msg, l.c)
    ELSE Rd([type |-> MsgConnect, Header |-> ZeroHeader,
             ProtocolName |-> l.protocolName, ProtocolVersion |-> l.protocolVersion,
             UsernameFlag |-> l.flags \div 128 = 1,
             PasswordFlag |-> (l.flags \div 64) % 2 = 1,
             WillRetain |-> (l.flags \div 32) % 2 = 1,
             WillQos |-> (l.flags \div 8) % 4,
             WillFlag |-> (l.flags \div 4) % 2 = 1,
             CleanSession |-> (l.flags \div 2) % 2 = 1,
             KeepAliveTimer |-> l.keepAliveTimer, ClientId |-> l.clientId,
             WillTopic |-> <<>>, WillMessage |-> <<>>,
             Username |-> <<>>, Password |-> <<>>], l.c)

Connect_will(d) ==
    IF d.c.err = nil /\ d.msg.WillFlag
    THEN ReadStringInto(ReadStringInto(d, "WillTopic"), "WillMessage")
    ELSE d

Connect_username(d) ==
    IF d.c.err = nil /\ d.msg.UsernameFlag THEN ReadStringInto(d, "Username") ELSE d

Connect_password(d) ==
    IF d.c.err = nil /\ d.msg.PasswordFlag THEN ReadStringInto(d, "Password") ELSE d

Connect_Decode(msg, r, hdr, packetRemaining) ==
    Recovered(Connect_password(Connect_username(Connect_will(
        Connect_struct(msg, Connect_locals(r, packetRemaining))))))

\* msg.ReturnCode is assigned before it is checked.
ConnAck_check(d) ==
    IF d.c.err # nil THEN Recovered(d)
    ELSE Decoded(d.msg,
                 IF ReturnCode_IsValid(d.msg.ReturnCode) THEN nil ELSE badReturnCodeError,
                 d.c)

ConnAck_Decode(msg, r, hdr, packetRemaining) ==
    ConnAck_check(ReadUint8Into(Rd(msg, getUint8(Ctx(r, packetRemaining))), "ReturnCode"))

\* make([]byte, n) filled by a read that delivered b.
Filled(n, b) == [i \in 1..n |-> IF i <= Len(b) THEN b[i] ELSE 0]

Publish_id(d) ==
    IF d.c.err = nil /\ QosLevel_HasId(d.msg.Header.QosLevel)
    THEN ReadUint16Into(d, "MessageId")
    ELSE d

\* msg.Data = make([]byte, packetRemaining); io.ReadFull(r, msg.Data)
Publish_data(d, rd) ==
    Decoded([d.msg EXCEPT !.Data = Filled(d.c.rem, rd.b)], rd.err, [d.c EXCEPT !.r = rd.r])

Publish_payload(d) ==
    IF d.c.err # nil THEN Recovered(d)
    ELSE Publish_data(d, ReadFull(d.c.r, d.c.rem))

Publish_Decode(msg, r, hdr, packetRemaining) ==
    Publish_payload(Publish_id(ReadStringInto(Rd(msg, Ctx(r, packetRemaining)), "TopicName")))

AckCommon_Decode(msg, r, hdr, packetRemaining) ==
    Recovered(ReadUint16Into(Rd(msg, Ctx(r, packetRemaining)), "MessageId"))

\* A list under construction: [c, topics, topicsQos].
Listed(c, topics, topicsQos) == [c |-> c, topics |-> topics, topicsQos |-> topicsQos]

\* topics = append(topics, getString(...)): not reached when the read aborts.
AppendTopic(l, c1) ==
    IF c1.err # nil THEN [l EXCEPT !.c = c1]
    ELSE [l EXCEPT !.c = c1, !.topics = Append(l.topics, c1.v)]

AppendQos(l, c1, mask) ==
    IF c1.err # nil THEN [l EXCEPT !.c = c1]
    ELSE [l EXCEPT !.c = c1, !.topicsQos = Append(l.topicsQos, c1.v % mask)]

ReadTopic(l) == AppendTopic(l, getString(l.c))

ReadQos(l, mask) == AppendQos(l, getUint8(l.c), mask)

\* for packetRemaining > 0 { topic string, requested QoS byte }
RECURSIVE Subscribe_loop(_)
Subscribe_loop(l) ==
    IF l.c.err # nil \/ ~(l.c.rem > 0) THEN l
    ELSE Subscribe_loop(ReadQos(ReadTopic(l), 256))

\* for packetRemaining > 0 { granted QoS byte & 0x03 }
RECURSIVE SubAck_loop(_)
SubAck_loop(l) ==
    IF l.c.err # nil \/ ~(l.c.rem > 0) THEN l
    ELSE SubAck_loop(ReadQos(l, 4))

\* for packetRemaining > 0 { topic string }
RECURSIVE Unsubscribe_loop(_)
Unsubscribe_loop(l) ==
    IF l.c.err # nil \/ ~(l.c.rem > 0) THEN l
    ELSE Unsubscribe_loop(ReadTopic(l))

\* msg.Topics = topics; msg.TopicsQos = topicsQos, after the loop.
Subscribe_lists(msg, l) ==
    IF l.c.err # nil THEN Recovered(Rd(msg, l.c))
    ELSE Decoded([msg EXCEPT !.Topics = l.topics, !.TopicsQos = l.topicsQos], nil, l.c)

Subscribe_id(d) ==
    IF QosLevel_HasId(d.msg.Header.QosLevel) THEN ReadUint16Into(d, "MessageId") ELSE d

Subscribe_body(d) == Subscribe_lists(d.msg, Subscribe_loop(Listed(d.c, <<>>, <<>>)))

Subscribe_Decode(msg, r, hdr, packetRemaining) ==
    Subscribe_body(Subscribe_id(Rd(msg, Ctx(r, packetRemaining))))

SubAck_list(msg, l) ==
    IF l.c.err # nil THEN Recovered(Rd(msg, l.c))
    ELSE Decoded([msg EXCEPT !.TopicsQos = l.topicsQos], nil, l.c)

SubAck_body(d) == SubAck_list(d.msg, SubAck_loop(Listed(d.c, <<>>, <<>>)))

SubAck_Decode(msg, r, hdr, packetRemaining) ==
    SubAck_body(ReadUint16Into(Rd(msg, Ctx(r, packetRemaining)), "MessageId"))

Unsubscribe_list(msg, l) ==
    IF l.c.err # nil THEN Recovered(Rd(msg, l.c))
    ELSE Decoded([msg EXCEPT !.Topics = l.topics], nil, l.c)

Unsubscribe_id(d) ==
    IF d.msg.Header.QosLevel = 1 \/ d.msg.Header.QosLevel = 2
    THEN ReadUint16Into(d, "MessageId")
    ELSE d

Unsubscribe_body(d) == Unsubscribe_list(d.msg, Unsubscribe_loop(Listed(d.c, <<>>, <<>>)))

Unsubscribe_Decode(msg, r, hdr, packetRemaining) ==
    Unsubscribe_body(Unsubscribe_id(Rd(msg, Ctx(r, packetRemaining))))

\* msg.Decode(r, hdr, packetRemaining) through the Message interface.
Message_Decode(msg, r, hdr, packetRemaining) ==
    CASE msg.type = MsgConnect -> Connect_Decode(msg, r, hdr, packetRemaining)
      [] msg.type = MsgConnAck -> ConnAck_Decode(msg, r, hdr, packetRemaining)
      [] msg.type = MsgPublish -> Publish_Decode(msg, r, hdr, packetRemaining)
      [] msg.type \in AckTypes -> AckCommon_Decode(msg, r, hdr, packetRemaining)
      [] msg.type = MsgSubscribe -> Subscribe_Decode(msg, r, hdr, packetRemaining)
      [] msg.type = MsgSubAck -> SubAck_Decode(msg, r, hdr, packetRemaining)
      [] msg.type = MsgUnsubscribe -> Unsubscribe_Decode(msg, r, hdr, packetRemaining)

\* What Header.Decode returned, kept with the result for the properties:
\* msgType, hdr, remainingLength, hdrErr, hdrAbort (the abort that left it)
\* and body, the reader as the per-type decoder received it.
Seen(h) ==
    [msgType |-> h.msgType, hdr |-> h.hdr, remainingLength |-> h.remainingLength,
     hdrErr |-> h.err, hdrAbort |-> h.abort, body |-> h.r]

\* DecodeOneMessage left by a panic; raised is the error of a raiseError
\* abort, nil for a runtime error.  DecodeOneMessage defers nothing.
Panicked(raised, r, h) ==
    [panic |-> TRUE, raised |-> raised, msg |-> NilMsg, err |-> nil, r |-> r,
     seen |-> Seen(h)]

\* return msg, msg.Decode(r, hdr, packetRemaining):
\* [panic, raised, msg, err, r, seen].  Called on the nil interface value the
\* method call is a nil dereference, a runtime panic.
DecodeOneMessage_call(h, nm, d) ==
    IF nm.msg.type = NilMsg.type THEN Panicked(nil, h.r, h)
    ELSE IF d.abort # nil THEN Panicked(d.abort, d.r, h)
    ELSE [panic |-> FALSE, raised |-> nil, msg |-> d.msg, err |-> d.err, r |-> d.r,
          seen |-> Seen(h)]

\* msg, err = NewMessage(msgType): the error of hdr.Decode is overwritten
\* here, and NewMessage's by the return statement.
DecodeOneMessage_new(h, nm) ==
    DecodeOneMessage_call(h, nm,
        IF nm.msg.type = NilMsg.type THEN NilMsg
        ELSE Message_Decode(nm.msg, h.r, h.hdr, h.remainingLength))

\* An abort that leaves hdr.Decode leaves DecodeOneMessage too.
DecodeOneMessage_hdr(h) ==
    IF h.abort # nil THEN Panicked(h.abort, h.r, h)
    ELSE DecodeOneMessage_new(h, NewMessage(h.msgType))

DecodeOneMessage(r) == DecodeOneMessage_hdr(Header_Decode(r))

\* ---------------------------------------------------------------- the Mqtt struct API (mqtt.go)
\* The older API of the package: one struct for every message type, Encode
\* to a byte slice and DecodeRead from a reader.  Its get*/set* primitives,
\* decodeLength, encodeLength, raiseError and recoverError are the functions
\* above, line for line; its MessageType constants CONNECT..DISCONNECT have
\* the values of MsgConnect..MsgDisconnect.

\* new(Mqtt): every field zero.
new_Mqtt ==
    [Header |-> [MessageType |-> 0, DupFlag |-> FALSE, Retain |-> FALSE, QosLevel |-> 0],
     ProtocolName |-> <<>>, TopicName |-> <<>>, ClientId |-> <<>>, WillTopic |-> <<>>,
     WillMessage |-> <<>>, Username |-> <<>>, Password |-> <<>>, ProtocolVersion |-> 0,
     ConnectFlags |-> [UsernameFlag |-> FALSE, PasswordFlag |-> FALSE,
                       WillRetain |-> FALSE, WillFlag |-> FALSE,
                       CleanSession |-> FALSE, WillQos |-> 0],
     KeepAliveTimer |-> 0, MessageId |-> 0, Data |-> <<>>, Topics |-> <<>>,
     Topics_qos |-> <<>>, ReturnCode |-> 0]

valid(mqtt) ==
    IF ~MessageType_IsValid(mqtt.Header.MessageType) THEN "MessageType is invalid!"
    ELSE IF ~QosLevel_IsValid(mqtt.Header.QosLevel) THEN "Qos Level is invalid!"
    ELSE IF ~QosLevel_IsValid(mqtt.ConnectFlags.WillQos) THEN "Will Qos Level is invalid!"
    ELSE nil

\* The fields do not overlap once valid() has passed, so |= is a sum.
setHeader(header, b) ==
    Append(b, Shl8(header.MessageType, 4) + Shl8(boolToByte(header.DupFlag), 3)
              + Shl8(header.QosLevel, 1) + boolToByte(header.Retain))

setConnectFlags(flags, b) ==
    Append(b, Shl8(boolToByte(flags.UsernameFlag), 7)
              + Shl8(boolToByte(flags.PasswordFlag), 6)
              + Shl8(boolToByte(flags.WillRetain), 5)
              + Shl8(flags.WillQos, 3)
              + Shl8(boolToByte(flags.WillFlag), 2)
              + Shl8(boolToByte(flags.CleanSession), 1))

\* The switch of Encode: the bytes written to buf for mqtt.
Encode_switch(mqtt) ==
    LET t == mqtt.Header.MessageType
        id == IF mqtt.Header.QosLevel = 1 \/ mqtt.Header.QosLevel = 2
              THEN setUint16(mqtt.MessageId, <<>>) ELSE <<>>
        b5 == setString(mqtt.ClientId, setUint16(mqtt.KeepAliveTimer,
                  setConnectFlags(mqtt.ConnectFlags,
                      setUint8(mqtt.ProtocolVersion, setString(mqtt.ProtocolName, <<>>)))))
        b6 == IF mqtt.ConnectFlags.WillFlag
              THEN setString(mqtt.WillMessage, setString(mqtt.WillTopic, b5))
              ELSE b5
        b7 == IF mqtt.ConnectFlags.UsernameFlag /\ Len(mqtt.Username) > 0
              THEN setString(mqtt.Username, b6) ELSE b6
    IN
    CASE t = MsgConnect ->
             IF mqtt.ConnectFlags.PasswordFlag /\ Len(mqtt.Password) > 0
             THEN setString(mqtt.Password, b7) ELSE b7
      [] t = MsgConnAck -> setUint8(mqtt.ReturnCode, <<0>>)
      [] t = MsgPublish ->
             setString(mqtt.TopicName, <<>>)
                 \o (IF mqtt.Header.QosLevel = 1 \/ mqtt.Header.QosLevel = 2
                     THEN setUint16(mqtt.MessageId, <<>>) ELSE <<>>)
                 \o mqtt.Data
      [] t \in AckTypes -> setUint16(mqtt.MessageId, <<>>)
      [] t = MsgSubscribe -> Subscribe_topics(mqtt.Topics, mqtt.Topics_qos, 1, id)
      [] t = MsgSubAck -> SubAck_qos(mqtt.Topics_qos, 1, setUint16(mqtt.MessageId, <<>>))
      [] t = MsgUnsubscribe -> Unsubscribe_topics(mqtt.Topics, 1, id)
      [] OTHER -> <<>>

\* func Encode(mqtt *Mqtt) ([]byte, error): [panic, err, out].  A SUBSCRIBE
\* with fewer Topics_qos than Topics indexes out of range.
Mqtt_Encode(mqtt) ==
    IF valid(mqtt) # nil THEN [panic |-> FALSE, err |-> valid(mqtt), out |-> <<>>]
    ELSE IF mqtt.Header.MessageType = MsgSubscribe /\ Len(mqtt.Topics_qos) < Len(mqtt.Topics)
    THEN [panic |-> TRUE, err |-> nil, out |-> <<>>]
    ELSE IF Len(Encode_switch(mqtt)) > 268435455
    THEN [panic |-> FALSE, err |-> "Message is too long!", out |-> <<>>]
    ELSE [panic |-> FALSE, err |-> nil,
          out |-> setHeader(mqtt.Header, <<>>) \o encodeLength(Len(Encode_switch(mqtt)))
                      \o Encode_switch(mqtt)]

\* getHeader(r): [Header, c], c.rem the decoded remaining length and c.err
\* the abort of the first-byte read or of decodeLength.
getHeader(r) ==
    LET rd == ReadFull(r, 1) IN
    IF rd.err # nil
    THEN [Header |-> new_Mqtt.Header, c |-> raiseError(Ctx(rd.r, 0), rd.err)]
    ELSE LET byte1 == rd.b[1]
             dl == decodeLength(rd.r)
         IN  [Header |-> [MessageType |-> byte1 \div 16,
                          DupFlag |-> (byte1 \div 8) % 2 = 1,
                          QosLevel |-> (byte1 \div 2) % 4,
                          Retain |-> byte1 % 2 = 1],
              c |-> [r |-> dl.r, rem |-> IF dl.err = nil THEN dl.v ELSE 0,
                     err |-> dl.err, v |-> 0]]

getConnectFlags(c) ==
    LET c1 == getUint8(c)
        bit == c1.v
    IN  IF c1.err # nil THEN c1
        ELSE [c1 EXCEPT !.v = [UsernameFlag |-> bit \div 128 = 1,
                               PasswordFlag |-> (bit \div 64) % 2 = 1,
                               WillRetain |-> (bit \div 32) % 2 = 1,
                               WillQos |-> (bit \div 8) % 4,
                               WillFlag |-> (bit \div 4) % 2 = 1,
                               CleanSession |-> (bit \div 2) % 2 = 1]]

\* if mqtt.ConnectFlags.<flag> { mqtt.<field> = getString(r, &packetRemaining) }
ReadOptional(d, flag, field) ==
    IF d.c.err = nil /\ d.msg.ConnectFlags[flag] THEN ReadStringInto(d, field) ELSE d

\* A return statement of DecodeRead, or its end: the results and the context.
Return(d, isNil, err) == [mqtt |-> d.msg, isNil |-> isNil, err |-> err, c |-> d.c]

DecodeRead_flags(d) == Assign(d, "ConnectFlags", getConnectFlags(d.c))

DecodeRead_CONNECT(d) ==
    ReadOptional(ReadOptional(ReadOptional(ReadOptional(
        ReadStringInto(ReadUint16Into(DecodeRead_flags(
            ReadUint8Into(ReadStringInto(d, "ProtocolName"), "ProtocolVersion")),
            "KeepAliveTimer"), "ClientId"),
        "WillFlag", "WillTopic"), "WillFlag", "WillMessage"),
        "UsernameFlag", "Username"), "PasswordFlag", "Password")

DecodeRead_CONNACK(d) ==
    IF d.c.err = nil /\ ~ReturnCode_IsValid(d.msg.ReturnCode)
    THEN Return(d, TRUE, badReturnCodeError)
    ELSE Return(d, FALSE, nil)

\* if qos := mqtt.Header.QosLevel; qos == 1 || qos == 2 { mqtt.MessageId = ... }
DecodeRead_id(d) ==
    IF d.c.err = nil /\ (d.msg.Header.QosLevel = 1 \/ d.msg.Header.QosLevel = 2)
    THEN ReadUint16Into(d, "MessageId")
    ELSE d

\* mqtt.Data = make([]byte, packetRemaining); io.ReadFull(r, mqtt.Data):
\* packetRemaining is not decremented.
DecodeRead_data(d, rd) ==
    IF d.c.err # nil THEN Return(d, FALSE, nil)
    ELSE IF rd.err # nil THEN Return(Rd(d.msg, [d.c EXCEPT !.r = rd.r]), TRUE, rd.err)
    ELSE Return(Rd([d.msg EXCEPT !.Data = rd.b], [d.c EXCEPT !.r = rd.r]), FALSE, nil)

DecodeRead_PUBLISH(d) == DecodeRead_data(d, ReadFull(d.c.r, d.c.rem))

\* for packetRemaining > 0 { granted QoS byte }, unmasked.
RECURSIVE DecodeRead_SUBACK(_)
DecodeRead_SUBACK(l) ==
    IF l.c.err # nil \/ ~(l.c.rem > 0) THEN l
    ELSE DecodeRead_SUBACK(ReadQos(l, 256))

\* mqtt.Topics = topics; mqtt.Topics_qos = topics_qos, after a loop, for the
\* lists that the message type has.
DecodeRead_lists(d, l, hasTopics, hasQos) ==
    IF l.c.err # nil THEN Return(Rd(d.msg, l.c), FALSE, nil)
    ELSE Return(Rd([d.msg EXCEPT !.Topics = IF hasTopics THEN l.topics ELSE @,
                                 !.Topics_qos = IF hasQos THEN l.topicsQos ELSE @],
                   l.c), FALSE, nil)

\* From the message type check to the last return of DecodeRead; d holds
\* the parsed header and the budget.
DecodeRead_switch(d) ==
    LET t == d.msg.Header.MessageType IN
    IF d.c.err # nil THEN Return(d, FALSE, nil)
    ELSE IF ~MessageType_IsValid(t) THEN Return(d, FALSE, badMsgTypeError)
    ELSE CASE t = MsgConnect -> Return(DecodeRead_CONNECT(d), FALSE, nil)
           [] t = MsgConnAck ->
                  DecodeRead_CONNACK(ReadUint8Into(Rd(d.msg, getUint8(d.c)), "ReturnCode"))
           [] t = MsgPublish ->
                  DecodeRead_PUBLISH(DecodeRead_id(ReadStringInto(d, "TopicName")))
           [] t \in AckTypes -> Return(ReadUint16Into(d, "MessageId"), FALSE, nil)
           [] t = MsgSubscribe ->
                  DecodeRead_lists(DecodeRead_id(d),
                                   Subscribe_loop(Listed(DecodeRead_id(d).c, <<>>, <<>>)),
                                   TRUE, TRUE)
           [] t = MsgSubAck ->
                  DecodeRead_lists(ReadUint16Into(d, "MessageId"),
                      DecodeRead_SUBACK(Listed(ReadUint16Into(d, "MessageId").c, <<>>, <<>>)),
                      FALSE, TRUE)
           [] t = MsgUnsubscribe ->
                  DecodeRead_lists(DecodeRead_id(d),
                                   Unsubscribe_loop(Listed(DecodeRead_id(d).c, <<>>, <<>>)),
                                   TRUE, FALSE)
           [] OTHER -> Return(d, FALSE, nil)

\* func DecodeRead(r io.Reader) (mqtt *Mqtt, err error):
\* [panic, raised, mqtt, isNil, err, r].  The deferred err = recoverError(err)
\* runs last; an abort it does not stop leaves DecodeRead as a panic.
DecodeRead(r) ==
    LET h == getHeader(r)
        ret == DecodeRead_switch(
                   Rd(IF h.c.err = nil THEN [new_Mqtt EXCEPT !.Header = h.Header]
                      ELSE new_Mqtt, h.c))
        re == recoverError(ret.err, ret.c.err)
    IN  IF re.abort # nil
        THEN [panic |-> TRUE, raised |-> re.abort, mqtt |-> new_Mqtt, isNil |-> TRUE,
              err |-> nil, r |-> ret.c.r]
        ELSE [panic |-> FALSE, raised |-> nil, mqtt |-> ret.mqtt, isNil |-> ret.isNil,
              err |-> re.err, r |-> ret.c.r]

\* ---------------------------------------------------------------- inputs

\* The string of n bytes "abc..."
Str(n) == [i \in 1..n |-> 96 + i]

Strings == {Str(n) : n \in 0..MaxStrLen}

Headers == [DupFlag : BOOLEAN, Retain : BOOLEAN, QosLevel : 0..3]

\* One message id below 256 and one above (0x1234, the id of the tests).
MessageIds == {7, 4660}

\* "MQIsdp", "xixihaha", "topic", "message", "name", "pwd"
ExampleConnect ==
    [type |-> MsgConnect, Header |-> ZeroHeader,
     ProtocolName |-> <<77, 81, 73, 115, 100, 112>>, ProtocolVersion |-> 3,
     UsernameFlag |-> TRUE, PasswordFlag |-> TRUE, WillRetain |-> FALSE,
     WillQos |-> 1, WillFlag |-> TRUE, CleanSession |-> TRUE,
     KeepAliveTimer |-> 10,
     ClientId |-> <<120, 105, 120, 105, 104, 97, 104, 97>>,
     WillTopic |-> <<116, 111, 112, 105, 99>>,
     WillMessage |-> <<109, 101, 115, 115, 97, 103, 101>>,
     Username |-> <<110, 97, 109, 101>>, Password |-> <<112, 119, 100>>]

\* CONNECT messages: every header, every combination of the three flags, a
\* valid and an invalid will QoS; a string is empty unless its flag is set.
Connects ==
    {ExampleConnect} \cup
    {[type |-> MsgConnect, Header |-> h, ProtocolName |-> Str(1),
      ProtocolVersion |-> 3, UsernameFlag |-> uf, PasswordFlag |-> pf,
      WillRetain |-> wf, WillQos |-> wq, WillFlag |-> wf, CleanSession |-> ~wf,
      KeepAliveTimer |-> 10, ClientId |-> s,
      WillTopic |-> IF wf THEN s ELSE <<>>, WillMessage |-> IF wf THEN Str(1) ELSE <<>>,
      Username |-> IF uf THEN s ELSE <<>>, Password |-> IF pf THEN Str(1) ELSE <<>>] :
     h \in Headers, uf \in BOOLEAN, pf \in BOOLEAN, wf \in BOOLEAN,
     wq \in {1, 3}, s \in Strings}

ConnAcks ==
    {[type |-> MsgConnAck, Header |-> h, ReturnCode |-> rc] :
     h \in Headers, rc \in {0, 4, 5}}

Publishes ==
    {[type |-> MsgPublish, Header |-> h, TopicName |-> s, MessageId |-> id,
      Data |-> [i \in 1..n |-> i]] :
     h \in Headers, s \in Strings, id \in MessageIds, n \in 0..MaxData}

Acks ==
    {[type |-> t, Header |-> h, MessageId |-> id] :
     t \in AckTypes, h \in Headers, id \in MessageIds}

Subscribes ==
    {[type |-> MsgSubscribe, Header |-> h, MessageId |-> id,
      Topics |-> [i \in 1..n |-> s], TopicsQos |-> [i \in 1..n |-> (i % 2) + 1]] :
     h \in Headers, id \in MessageIds, n \in 0..MaxTopics, s \in Strings}

SubAcks ==
    {[type |-> MsgSubAck, Header |-> h, MessageId |-> id,
      TopicsQos |-> [i \in 1..n |-> i % 3]] :
     h \in Headers, id \in MessageIds, n \in 0..MaxTopics}

Unsubscribes ==
    {[type |-> MsgUnsubscribe, Header |-> h, MessageId |-> id,
      Topics |-> [i \in 1..n |-> s]] :
     h \in Headers, id \in MessageIds, n \in 0..MaxTopics, s \in Strings}

\* The rows of TestLengthEncodeDecode: <<value, encoded>>.
LengthTable ==
    {<<0, <<0>> >>, <<1, <<1>> >>, <<20, <<20>> >>, <<127, <<127>> >>,
     <<128, <<128, 1>> >>, <<16383, <<255, 127>> >>,
     <<16384, <<128, 128, 1>> >>, <<2097151, <<255, 255, 127>> >>,
     <<2097152, <<128, 128, 128, 1>> >>, <<268435455, <<255, 255, 255, 127>> >>}

\* The largest remaining length of a packet.
MaxPayloadSize == 268435455

\* Payload sizes around the limit, and the size of the overflow test.
LargeSizes == {MaxPayloadSize - 7, MaxPayloadSize - 6, MaxPayloadSize, MaxInt32}

\* Flag nibbles, bodies and declared lengths of the packets a peer feeds.
FeedFlags == {0, 3, 6, 12}

FeedBytes == {0, 1, 6}

RECURSIVE SeqsUpTo(_, _)
SeqsUpTo(S, n) ==
    IF n = 0 THEN {<<>>}
    ELSE LET shorter == SeqsUpTo(S, n - 1) IN
         shorter \cup {Append(q, x) : q \in {t \in shorter : Len(t) = n - 1}, x \in S}

\* Mqtt values given to Encode.  CONNECT: every combination of the three
\* flags, each optional string empty or not when its flag is set, a valid and
\* an invalid will QoS.  The other types, 0 and 15 among them: a valid and
\* an invalid QoS, both message ids, a valid and an invalid return code,
\* Topics_qos as long as Topics and shorter.
Mqtts ==
    {[new_Mqtt EXCEPT !.Header.MessageType = MsgConnect,
                      !.ProtocolName = Str(1), !.ProtocolVersion = 3,
                      !.ConnectFlags = [UsernameFlag |-> uf, PasswordFlag |-> pf,
                                        WillRetain |-> FALSE, WillFlag |-> wf,
                                        CleanSession |-> TRUE, WillQos |-> wq],
                      !.KeepAliveTimer = 10, !.ClientId = Str(1),
                      !.WillTopic = IF wf THEN w ELSE <<>>,
                      !.WillMessage = IF wf THEN w ELSE <<>>,
                      !.Username = IF uf THEN u ELSE <<>>,
                      !.Password = IF pf THEN pw ELSE <<>>] :
     uf \in BOOLEAN, pf \in BOOLEAN, wf \in BOOLEAN, wq \in {1, 3},
     w \in {<<>>, Str(1)}, u \in {<<>>, Str(1)}, pw \in {<<>>, Str(2)}}
    \cup
    {[new_Mqtt EXCEPT !.Header.MessageType = t, !.Header.QosLevel = q,
                      !.MessageId = id, !.TopicName = Str(1), !.Data = <<1>>,
                      !.Topics = <<Str(1)>>, !.Topics_qos = tq, !.ReturnCode = rc] :
     t \in {0} \cup 2..15, q \in {0, 1, 3}, id \in MessageIds, rc \in {0, 6},
     tq \in {<<1>>, <<>>}}

\* ---------------------------------------------------------------- the state machine

\* The package-level variables of the codec, by name: the error values.  No
\* function of the package assigns to them.
PkgInit ==
    [v \in {badMsgTypeError, badQosError, badWillQosError, badLengthEncodingError,
            badReturnCodeError, dataExceedsPacketError, msgTooLongError} |-> v]

Init ==
    /\ buf = <<>>
    /\ orig = NilMsg
    /\ cut = FALSE
    /\ res = [op |-> "init"]
    /\ calls = [pkg |-> PkgInit, g |-> <<>>]

\* No call has been made on the current buffer yet.
Idle == res.op = "init"

\* encodedBuf := new(bytes.Buffer); err := msg.Encode(encodedBuf)
Encode(msg) ==
    LET e == Message_Encode(msg) IN
    /\ buf' = e.out
    /\ orig' = IF e.err = nil THEN msg ELSE NilMsg
    /\ cut' = FALSE
    /\ UNCHANGED calls
    /\ res' = [op |-> "Encode", msg |-> msg, err |-> e.err, out |-> e.out]

EncodeConnect == Idle /\ \E msg \in Connects : Encode(msg)

EncodeConnAck == Idle /\ \E msg \in ConnAcks : Encode(msg)

EncodePublish == Idle /\ \E msg \in Publishes : Encode(msg)

EncodeAck == Idle /\ \E msg \in Acks : Encode(msg)

EncodeSubscribe == Idle /\ \E msg \in Subscribes : Encode(msg)

EncodeSubAck == Idle /\ \E msg \in SubAcks : Encode(msg)

EncodeUnsubscribe == Idle /\ \E msg \in Unsubscribes : Encode(msg)

\* hdr.Encode(w, msgType, remainingLength) called on its own, w a new buffer.
EncodeHeader ==
    Idle /\ \E hdr \in Headers, msgType \in 0..15, remainingLength \in {0, 2, 127, 128, 16384} :
        LET e == Header_Encode(hdr, msgType, remainingLength) IN
        /\ buf' = e.out
        /\ orig' = NilMsg
        /\ cut' = FALSE
        /\ UNCHANGED calls
        /\ res' = [op |-> "Header.Encode", hdr |-> hdr, msgType |-> msgType,
                   remainingLength |-> remainingLength, err |-> e.err, out |-> e.out]

\* Publish.Encode of a message whose Data holds dataLen bytes, by sizes: the
\* sink is a new buffer of which only the number of bytes written is kept.
Publish_EncodeSized(msg, dataLen) ==
    writeMessageSized(MsgPublish, msg.Header, Len(Publish_head(msg)), dataLen)

EncodeLarge ==
    Idle /\ \E hdr \in Headers, id \in MessageIds, dataLen \in LargeSizes :
        LET msg == [type |-> MsgPublish, Header |-> hdr, TopicName |-> Str(3),
                    MessageId |-> id]
            e == Publish_EncodeSized(msg, dataLen)
        IN  /\ buf' = <<>>
            /\ orig' = NilMsg
            /\ cut' = FALSE
            /\ UNCHANGED calls
            /\ res' = [op |-> "EncodeLarge", msg |-> msg, dataLen |-> dataLen,
                       headLen |-> Len(Publish_head(msg)),
                       err |-> e.err, hdr |-> e.hdr,
                       wroteHead |-> e.n1, wroteData |-> e.n2]

\* The largest value of a uint16.
MaxUint16 == 65535

\* String lengths: short ones, around one byte's range, and as long as a
\* uint16 can count and longer.
StringLens == {0, 3, 255, 256, MaxUint16, MaxUint16 + 1, MaxUint16 + 4}

\* buf := new(bytes.Buffer); setString(val, buf) for a val of n bytes.  Of
\* the bytes written the result keeps the two of the prefix and the number
\* that follow them.
SetString ==
    Idle /\ \E n \in StringLens :
        /\ buf' = <<>>
        /\ orig' = NilMsg
        /\ cut' = FALSE
        /\ UNCHANGED calls
        /\ res' = [op |-> "setString", len |-> n,
                   prefix |-> SubSeq(setString([i \in 1..n |-> 97], <<>>), 1, 2),
                   written |-> Len(setString([i \in 1..n |-> 97], <<>>)) - 2]

\* buf := new(bytes.Buffer); encodeLength(value, buf)
LengthEncode ==
    Idle /\ \E row \in LengthTable :
        /\ buf' = encodeLength(row[1])
        /\ orig' = NilMsg
        /\ cut' = FALSE
        /\ UNCHANGED calls
        /\ res' = [op |-> "encodeLength", length |-> row[1], out |-> encodeLength(row[1])]

\* decodeLength(buf) on the bytes of a row of the table.
LengthDecode ==
    Idle /\ \E row \in LengthTable :
        LET d == decodeLength(row[2]) IN
        /\ buf' = d.r
        /\ orig' = NilMsg
        /\ cut' = FALSE
        /\ UNCHANGED calls
        /\ res' = [op |-> "decodeLength", in |-> row[2], err |-> d.err, v |-> d.v]

\* Bytes of a remaining-length field as a peer may send them, with and
\* without the continuation bit, and the longest field fed.
LengthBytes == {0, 127, 128, 255}

MaxLengthBytes == 5

\* decodeLength(buf) on bytes of a peer's making.
LengthDecodeAny ==
    Idle /\ \E in \in SeqsUpTo(LengthBytes, MaxLengthBytes) :
        /\ buf' = decodeLength(in).r
        /\ orig' = NilMsg
        /\ cut' = FALSE
        /\ UNCHANGED calls
        /\ res' = [op |-> "decodeLength.any", in |-> in, err |-> decodeLength(in).err,
                   v |-> decodeLength(in).v, r |-> decodeLength(in).r]

\* The source ends early: only the first n bytes of an encoded packet arrive.
Truncate ==
    orig # NilMsg /\ ~cut /\ \E n \in 0..(Len(buf) - 1) :
        /\ buf' = SubSeq(buf, 1, n)
        /\ orig' = NilMsg
        /\ cut' = TRUE
        /\ UNCHANGED calls
        /\ res' = [op |-> "Truncate", n |-> n]

\* A peer sends a packet of its own making: a first byte, a one-byte
\* remaining length and a body that may be shorter or longer than declared.
Feed ==
    Idle /\ \E t \in 0..15, f \in FeedFlags, n \in 0..MaxFeed, body \in SeqsUpTo(FeedBytes, MaxFeed) :
        /\ buf' = <<t * 16 + f, n>> \o body
        /\ orig' = NilMsg
        /\ cut' = FALSE
        /\ UNCHANGED calls
        /\ res' = [op |-> "Feed", type |-> t, flags |-> f, declared |-> n, body |-> body]

\* Connect flags bytes a peer may send: clean session alone; will QoS bits 3
\* without and with the will flag; username, password and will with QoS 1.
FeedConnectFlags == {2, 26, 30, 206}

\* The body of a CONNECT as a peer builds it for a connect flags byte: each
\* optional string, here s, is present exactly when its flag bit is set.
PeerConnect(flags, s) ==
    setString(<<97>>, <<>>) \o <<3, flags, 0, 10>> \o setString(s, <<>>)
        \o (IF (flags \div 4) % 2 = 1 THEN setString(s, setString(s, <<>>)) ELSE <<>>)
        \o (IF (flags \div 128) % 2 = 1 THEN setString(s, <<>>) ELSE <<>>)
        \o (IF (flags \div 64) % 2 = 1 THEN setString(s, <<>>) ELSE <<>>)

\* A peer sends a complete CONNECT packet with a connect flags byte of its
\* own choice.
FeedConnect ==
    Idle /\ \E flags \in FeedConnectFlags, s \in Strings :
        /\ buf' = <<16, Len(PeerConnect(flags, s))>> \o PeerConnect(flags, s)
        /\ orig' = NilMsg
        /\ cut' = FALSE
        /\ UNCHANGED calls
        /\ res' = [op |-> "Feed", type |-> MsgConnect, flags |-> 0,
                   declared |-> Len(PeerConnect(flags, s)),
                   body |-> PeerConnect(flags, s)]

\* A peer sends a type byte followed by k continuation bytes and nothing
\* else: a remaining-length field that ends early or is over-long.
FeedHeader ==
    Idle /\ \E t \in 0..15, k \in 0..MaxLengthBytes :
        /\ buf' = <<t * 16>> \o [i \in 1..k |-> 128]
        /\ orig' = NilMsg
        /\ cut' = FALSE
        /\ UNCHANGED calls
        /\ res' = [op |-> "Feed", type |-> t, flags |-> 0, declared |-> 0,
                   body |-> [i \in 1..k |-> 128]]

\* msg, err := DecodeOneMessage(buf)
DecodeOne ==
    LET d == DecodeOneMessage(buf) IN
    /\ res.op \in {"Encode", "Header.Encode", "Truncate", "Feed", "encodeLength"}
    /\ buf' = d.r
    /\ orig' = NilMsg
    /\ cut' = FALSE
    /\ UNCHANGED calls
    /\ res' = [op |-> "DecodeOneMessage", in |-> buf, orig |-> orig, cut |-> cut,
               panic |-> d.panic, raised |-> d.raised, msg |-> d.msg, err |-> d.err, r |-> d.r,
               seen |-> d.seen]

\* b, err := Encode(mqtt)
EncodeMqtt ==
    Idle /\ \E mqtt \in Mqtts :
        /\ buf' = Mqtt_Encode(mqtt).out
        /\ orig' = NilMsg
        /\ cut' = FALSE
        /\ UNCHANGED calls
        /\ res' = [op |-> "mqtt.Encode", mqtt |-> mqtt, panic |-> Mqtt_Encode(mqtt).panic,
                   err |-> Mqtt_Encode(mqtt).err, out |-> Mqtt_Encode(mqtt).out]

\* mqtt, err := Decode(b), that is DecodeRead(bytes.NewBuffer(b)), on the
\* bytes Encode returned or on a packet of a peer; sent holds the encoded
\* value, if any.
DecodeMqtt ==
    LET d == DecodeRead(buf) IN
    /\ \/ res.op = "Feed"
       \/ res.op = "mqtt.Encode" /\ ~res.panic /\ res.err = nil
    /\ buf' = d.r
    /\ orig' = NilMsg
    /\ cut' = FALSE
    /\ UNCHANGED calls
    /\ res' = [op |-> "DecodeRead", in |-> buf,
               sent |-> IF res.op = "mqtt.Encode" THEN <<res.mqtt>> ELSE <<>>,
               panic |-> d.panic, raised |-> d.raised, mqtt |-> d.mqtt,
               isNil |-> d.isNil, err |-> d.err, r |-> d.r]

\* The next case starts on a new, empty buffer.
NextCase ==
    /\ ~Idle
    /\ buf' = <<>>
    /\ orig' = NilMsg
    /\ cut' = FALSE
    /\ UNCHANGED calls
    /\ res' = [op |-> "init"]

Next ==
    \/ EncodeConnect
    \/ EncodeConnAck
    \/ EncodePublish
    \/ EncodeAck
    \/ EncodeSubscribe
    \/ EncodeSubAck
    \/ EncodeUnsubscribe
    \/ EncodeHeader
    \/ EncodeLarge
    \/ SetString
    \/ LengthEncode
    \/ LengthDecode
    \/ LengthDecodeAny
    \/ Truncate
    \/ Feed
    \/ FeedConnect
    \/ FeedHeader
    \/ DecodeOne
    \/ EncodeMqtt
    \/ DecodeMqtt
    \/ NextCase

Spec == Init /\ [][Next]_vars

\* ---------------------------------------------------------------- concurrent calls
\* Goroutines run one call each, an Encode or a DecodeOneMessage, on a
\* message and a buffer of their own.  A call advances by the calls it makes
\* in turn: build the payload, Header.Encode, w.Write; hdr.Decode, NewMessage,
\* msg.Decode.  What a call of one goroutine can see of another is the
\* package-level variables.

\* Number of goroutines.
MaxCalls == 2

Goroutines == 1..MaxCalls

\* The value of the error expression e of the code when the package-level
\* variables hold pkg.
PkgRead(pkg, e) == IF e \in DOMAIN pkg THEN pkg[e] ELSE e

\* Messages encoded concurrently: a PUBACK, a PUBLISH with QoS 1 and one with
\* the invalid QoS 3.
ConcMsgs ==
    {[type |-> MsgPubAck, Header |-> ZeroHeader, MessageId |-> 7],
     [type |-> MsgPublish, Header |-> [ZeroHeader EXCEPT !.QosLevel = 1],
      TopicName |-> Str(1), MessageId |-> 7, Data |-> <<1>>],
     [type |-> MsgPublish, Header |-> [ZeroHeader EXCEPT !.QosLevel = 3],
      TopicName |-> Str(1), MessageId |-> 7, Data |-> <<1>>]}

\* Packets decoded concurrently: a PUBACK, a CONNACK with return code 6, a
\* PUBACK declaring one byte, a PINGREQ.
ConcPackets == {<<64, 2, 0, 7>>, <<32, 2, 0, 6>>, <<64, 1, 0>>, <<192, 0>>}

ConcJobs ==
    {[kind |-> "Encode", msg |-> m, in |-> <<>>] : m \in ConcMsgs}
        \cup {[kind |-> "Decode", msg |-> NilMsg, in |-> p] : p \in ConcPackets}

\* What a call gives its caller: [panic, raised, msg, err, bytes], bytes
\* being the sink after an Encode and the rest of the source after a decode.
Outcome(panic, raised, msg, err, bytes) ==
    [panic |-> panic, raised |-> raised, msg |-> msg, err |-> err, bytes |-> bytes]

\* The outcome of a job run on its own.
Alone(job) ==
    IF job.kind = "Encode"
    THEN Outcome(FALSE, nil, NilMsg, Message_Encode(job.msg).err,
                 Message_Encode(job.msg).out)
    ELSE Outcome(DecodeOneMessage(job.in).panic, DecodeOneMessage(job.in).raised,
                 DecodeOneMessage(job.in).msg, DecodeOneMessage(job.in).err,
                 DecodeOneMessage(job.in).r)

\* A call about to start: buf is its sink (Encode) or source (decode), local
\* its payloadBuf, h and nm what hdr.Decode and NewMessage returned, overlap
\* whether it made a step while another call was under way.
Called(job) ==
    [job |-> job, pc |-> IF job.kind = "Encode" THEN "build" ELSE "hdr",
     buf |-> job.in, local |-> <<>>,
     h |-> [msgType |-> 0, hdr |-> ZeroHeader, remainingLength |-> 0,
            err |-> nil, abort |-> nil, r |-> <<>>],
     nm |-> [msg |-> NilMsg, err |-> nil], overlap |-> FALSE,
     result |-> Outcome(FALSE, nil, NilMsg, nil, <<>>)]

InitConc ==
    /\ buf = <<>>
    /\ orig = NilMsg
    /\ cut = FALSE
    /\ res = [op |-> "init"]
    /\ calls \in [pkg : {PkgInit}, g : {[g \in Goroutines |-> Called(j[g])] :
                                            j \in [Goroutines -> ConcJobs]}]

\* Another goroutine is in the middle of its call.
Overlapped(g) ==
    \E g2 \in Goroutines \ {g} : calls.g[g2].pc \in {"header", "payload", "new", "body"}

\* Goroutine g makes a step that leaves its call as c.
Stepped(g, c) ==
    /\ calls' = [calls EXCEPT !.g[g] = [c EXCEPT !.overlap = @ \/ Overlapped(g)]]
    /\ UNCHANGED <<buf, orig, cut, res>>

\* The payload of the message as PubAck.Encode / Publish.Encode build it.
ConcPayload(msg) ==
    IF msg.type = MsgPublish THEN Publish_head(msg) \o msg.Data
    ELSE setUint16(msg.MessageId, <<>>)

\* buf := new(bytes.Buffer); set...(..., buf), with a payload buffer that is
\* a package-level variable, never reset.
GoBuild_shared ==
    \E g \in Goroutines :
        /\ calls.g[g].pc = "build"
        /\ calls' = [calls EXCEPT
               !.pkg = [v \in DOMAIN calls.pkg \cup {"payloadBuf"} |->
                           IF v # "payloadBuf" THEN calls.pkg[v]
                           ELSE IF v \in DOMAIN calls.pkg
                                THEN calls.pkg[v] \o ConcPayload(calls.g[g].job.msg)
                                ELSE ConcPayload(calls.g[g].job.msg)],
               !.g[g] = [@ EXCEPT !.pc = "header",
                           !.local = IF "payloadBuf" \in DOMAIN calls.pkg
                                     THEN calls.pkg["payloadBuf"]
                                              \o ConcPayload(calls.g[g].job.msg)
                                     ELSE ConcPayload(calls.g[g].job.msg)]]
        /\ UNCHANGED <<buf, orig, cut, res>>

\* buf := new(bytes.Buffer); set...(..., buf): the payload, in a buffer of
\* the call's own.
GoBuild ==
    \E g \in Goroutines :
        /\ calls.g[g].pc = "build"
        /\ Stepped(g, [calls.g[g] EXCEPT !.pc = "header",
                                         !.local = ConcPayload(calls.g[g].job.msg)])

\* The call of g ends with an outcome.
Done(c, outcome) == [c EXCEPT !.pc = "done", !.result = outcome]

\* writeMessage: err := hdr.Encode(w, msgType, int32(len(payloadBuf.Bytes())))
GoHeader ==
    \E g \in Goroutines :
        LET c == calls.g[g]
            h == Header_Encode(c.job.msg.Header, c.job.msg.type, Len(c.local))
        IN  /\ c.pc = "header"
            /\ Stepped(g, IF h.err # nil
                          THEN Done(c, Outcome(FALSE, nil, NilMsg,
                                               PkgRead(calls.pkg, h.err), c.buf))
                          ELSE [c EXCEPT !.pc = "payload", !.buf = @ \o h.out])

\* writeMessage: _, err = w.Write(payloadBuf.Bytes()); return err
GoPayload ==
    \E g \in Goroutines :
        LET c == calls.g[g] IN
        /\ c.pc = "payload"
        /\ Stepped(g, Done(c, Outcome(FALSE, nil, NilMsg, nil, c.buf \o c.local)))

\* DecodeOneMessage: msgType, packetRemaining, err = hdr.Decode(r)
GoHdrDecode ==
    \E g \in Goroutines :
        LET c == calls.g[g]
            h == Header_Decode(c.buf)
        IN  /\ c.pc = "hdr"
            /\ Stepped(g, IF h.abort # nil
                          THEN Done(c, Outcome(TRUE, PkgRead(calls.pkg, h.abort),
                                               NilMsg, nil, h.r))
                          ELSE [c EXCEPT !.pc = "new", !.h = h, !.buf = h.r])

\* DecodeOneMessage: msg, err = NewMessage(msgType)
GoNewMessage ==
    \E g \in Goroutines :
        LET c == calls.g[g] IN
        /\ c.pc = "new"
        /\ Stepped(g, [c EXCEPT !.pc = "body", !.nm = NewMessage(c.h.msgType)])

\* DecodeOneMessage: return msg, msg.Decode(r, hdr, packetRemaining)
GoBody ==
    \E g \in Goroutines :
        LET c == calls.g[g]
            d == DecodeOneMessage_new(c.h, c.nm)
        IN  /\ c.pc = "body"
            /\ Stepped(g, Done(c, Outcome(d.panic, PkgRead(calls.pkg, d.raised), d.msg,
                                          PkgRead(calls.pkg, d.err), d.r)))

NextConc ==
    \/ GoBuild
    \/ GoHeader
    \/ GoPayload
    \/ GoHdrDecode
    \/ GoNewMessage
    \/ GoBody

SpecConc == InitConc /\ [][NextConc]_vars

\* ---------------------------------------------------------------- the topic-list loops, step by step
\* The for packetRemaining > 0 loops of Subscribe.Decode, SubAck.Decode and
\* Unsubscribe.Decode, one iteration per step.  The reader is a stream: what
\* it holds when an iteration starts is any sequence of at most MaxAhead
\* bytes, so that the loop cannot end for want of input alone.

\* Largest packetRemaining at the start of a loop.
MaxBudget == 6
\* Most bytes the reader holds at the start of an iteration.
MaxAhead == 4

\* The bytes of the stream: as a length prefix, an empty string or one of
\* one byte.
LoopBytes == {0, 1}

\* The body of the loop of the decoder of message type kind.
LoopBody(kind, l) ==
    CASE kind = MsgSubscribe -> ReadQos(ReadTopic(l), 256)
      [] kind = MsgSubAck -> ReadQos(l, 4)
      [] kind = MsgUnsubscribe -> ReadTopic(l)

\* topics := make([]string, 0); topicsQos := make([]QosLevel, 0), with any
\* packetRemaining, negative included.
LoopEnter ==
    Idle /\ \E kind \in {MsgSubscribe, MsgSubAck, MsgUnsubscribe},
               budget \in (-1)..MaxBudget :
        /\ res' = [op |-> "loop", kind |-> kind, budget |-> budget, n |-> 0,
                   l |-> Listed(Ctx(<<>>, budget), <<>>, <<>>)]
        /\ UNCHANGED <<buf, orig, cut, calls>>

\* packetRemaining > 0 holds and no abort is in flight: one iteration on
\* what the stream holds now.  The value of the last read has been appended
\* and is dropped from the context, and so is what the iteration left unread.
LoopIter ==
    /\ res.op = "loop" /\ res.l.c.err = nil /\ res.l.c.rem > 0
    /\ \E src \in SeqsUpTo(LoopBytes, MaxAhead) :
           res' = [res EXCEPT !.n = @ + 1,
                              !.l = [LoopBody(res.kind, [res.l EXCEPT !.c.r = src])
                                         EXCEPT !.c.v = 0, !.c.r = <<>>]]
    /\ UNCHANGED <<buf, orig, cut, calls>>

\* The loop is left: by its condition, or by the abort of a read.
LoopExit ==
    /\ res.op = "loop" /\ ~(res.l.c.err = nil /\ res.l.c.rem > 0)
    /\ res' = [res EXCEPT !.op = "loop.done"]
    /\ UNCHANGED <<buf, orig, cut, calls>>

NextLoop ==
    \/ LoopEnter
    \/ LoopIter
    \/ LoopExit

\* A decoder that is running goes on running.
SpecLoop ==
    Init /\ [][NextLoop]_vars /\ WF_vars(LoopIter) /\ WF_vars(LoopExit)

\* ---------------------------------------------------------------- properties

Decoding == res.op = "DecodeOneMessage"

\* The big-endian value of two bytes.
BigEndian(hi, lo) == hi * 256 + lo

\* C1: decoding the bytes a message's Encode produced succeeds and returns
\* a message equal to the original.
C1_RoundTrip ==
    (Decoding /\ res.orig # NilMsg) =>
        (~res.panic /\ res.err = nil /\ res.msg = res.orig)

\* C2: encodeLength maps every value of the boundary table to the bytes
\* listed for it, and decodeLength maps those bytes back to the value.
C2_LengthTable ==
    /\ res.op = "encodeLength" =>
           \E row \in LengthTable : row[1] = res.length /\ res.out = row[2]
    /\ res.op = "decodeLength" =>
           \E row \in LengthTable : row[2] = res.in /\ res.err = nil /\ res.v = row[1]

\* C3: on a proper prefix of an encoded packet DecodeOneMessage returns an
\* end-of-input error: it neither panics nor succeeds.
C3_TruncatedFails ==
    (Decoding /\ res.cut) =>
        (~res.panic /\ res.err \in {EOF, ErrUnexpectedEOF})

\* C4: once the fixed header is read, DecodeOneMessage fails with the
\* invalid-message-type error exactly when the type nibble is outside 1..14,
\* a success returns a message of the type of the nibble, and PINGREQ,
\* PINGRESP and DISCONNECT with remaining length 0 decode successfully.
C4_TypeDispatch ==
    (Decoding /\ res.seen.hdrErr = nil /\ res.seen.hdrAbort = nil) =>
        LET t == res.in[1] \div 16 IN
        /\ (~res.panic /\ res.err = badMsgTypeError) <=> ~(t \in 1..14)
        /\ (~res.panic /\ res.err = nil) => res.msg.type = t
        /\ (t \in {MsgPingReq, MsgPingResp, MsgDisconnect} /\ res.seen.remainingLength = 0)
               => (~res.panic /\ res.err = nil)

\* C5: a decode succeeds only if it consumed exactly the declared remaining
\* length after the fixed header.
C5_ExactConsumption ==
    (Decoding /\ ~res.panic /\ res.err = nil) =>
        Len(res.seen.body) - Len(res.r) = res.seen.remainingLength

\* C6: encoding a message whose variable header plus payload exceeds
\* 268,435,455 bytes fails with the message-too-long error and writes
\* nothing, neither fixed header nor payload.
C6_OversizedRejected ==
    (/\ res.op = "EncodeLarge"
     /\ QosLevel_IsValid(res.msg.Header.QosLevel)
     /\ res.dataLen > MaxPayloadSize - res.headLen) =>
        (/\ res.err = msgTooLongError
         /\ res.hdr = <<>>
         /\ res.wroteHead = 0
         /\ res.wroteData = 0)

\* C7: when DecodeOneMessage returns an error, the message returned with
\* it is nil.
C7_NoMessageWithError ==
    (Decoding /\ ~res.panic /\ res.err # nil) => res.msg = NilMsg

\* C8: a PUBLISH carries its message id, right after the topic, exactly when
\* the header QoS is 1 or 2: the encoder writes topic, id (under that
\* condition), payload; the decoder reads the id under the same condition on
\* the QoS of the fixed header it parsed and takes the rest as the payload.
C8_PublishIdGating ==
    /\ (res.op = "Encode" /\ res.msg.type = MsgPublish /\ res.err = nil) =>
           LET m == res.msg
               afterTopic == SubSeq(res.out, 5 + Len(m.TopicName), Len(res.out))
           IN  afterTopic =
                   IF m.Header.QosLevel \in {1, 2}
                   THEN <<m.MessageId \div 256, m.MessageId % 256>> \o m.Data
                   ELSE m.Data
    /\ (Decoding /\ ~res.panic /\ res.err = nil /\ res.seen.msgType = MsgPublish) =>
           LET idLen == IF res.seen.hdr.QosLevel \in {1, 2} THEN 2 ELSE 0 IN
           /\ Len(res.msg.Data)
                  = res.seen.remainingLength - 2 - Len(res.msg.TopicName) - idLen
           /\ res.msg.Data
                  = SubSeq(res.seen.body, 3 + Len(res.msg.TopicName) + idLen,
                           res.seen.remainingLength)

\* C9: for every header QoS, SUBSCRIBE and SUBACK carry the message id in
\* the first two bytes after the fixed header: the encoder writes it there
\* and the decoder reads it from there.
C9_SubscribeIdAlways ==
    /\ (res.op = "Encode" /\ res.msg.type \in {MsgSubscribe, MsgSubAck} /\ res.err = nil) =>
           /\ Len(res.out) >= 4
           /\ SubSeq(res.out, 3, 4)
                  = <<res.msg.MessageId \div 256, res.msg.MessageId % 256>>
    /\ (/\ Decoding /\ ~res.panic /\ res.err = nil
        /\ res.seen.msgType \in {MsgSubscribe, MsgSubAck}) =>
           /\ res.seen.remainingLength >= 2
           /\ res.msg.MessageId = BigEndian(res.seen.body[1], res.seen.body[2])

\* C10: an encode whose message type is outside 1..14, whose header QoS is 3
\* or more or (CONNECT) whose will QoS is 3 or more fails and writes nothing;
\* the error is the one of the check that fails, the checks being made in
\* the order will QoS, header QoS, message type; an encode with all three in
\* range succeeds and writes the packet.
C10_EncodeValidation ==
    /\ res.op = "Header.Encode" =>
           /\ res.hdr.QosLevel >= 3 => res.err = badQosError
           /\ (res.hdr.QosLevel < 3 /\ ~(res.msgType \in 1..14)) => res.err = badMsgTypeError
           /\ (res.hdr.QosLevel < 3 /\ res.msgType \in 1..14) => res.err = nil
           /\ res.err # nil => (res.out = <<>> /\ buf = <<>>)
           /\ res.err = nil => (res.out # <<>> /\ buf = res.out)
    /\ res.op = "Encode" =>
           LET badWill == res.msg.type = MsgConnect /\ res.msg.WillQos >= 3 IN
           /\ badWill => res.err = badWillQosError
           /\ (~badWill /\ res.msg.Header.QosLevel >= 3) => res.err = badQosError
           /\ (~badWill /\ res.msg.Header.QosLevel < 3) => res.err = nil
           /\ res.err # nil => (res.out = <<>> /\ buf = <<>>)
           /\ res.err = nil => (res.out # <<>> /\ buf = res.out)

\* Header.Encode was given message type 15 with a valid QoS, and a CONNECT
\* with will QoS 3 was encoded: each failed with its own error, nothing written.
C10_Witness ==
    \/ /\ res.op = "Header.Encode"
       /\ res.msgType = 15
       /\ res.hdr.QosLevel = 2
       /\ res.err = badMsgTypeError
       /\ buf = <<>>
    \/ /\ res.op = "Encode"
       /\ res.msg.type = MsgConnect
       /\ res.msg.WillQos = 3
       /\ res.err = badWillQosError
       /\ buf = <<>>

\* C11: decoding fails with an error on a fixed header whose QoS bits are 3,
\* on a CONNECT whose will QoS bits are 3, and on a CONNACK whose return code
\* is not in 0..5; so no decode of such a packet returns success, and the
\* CONNACK is answered by the return code error.
C11_DecodeValidation ==
    (Decoding /\ res.seen.hdrErr = nil /\ res.seen.hdrAbort = nil) =>
        LET t == res.seen.msgType
            body == res.seen.body
            declared == res.seen.remainingLength
            success == ~res.panic /\ res.err = nil
        IN
        /\ (res.in[1] \div 2) % 4 = 3 => ~success
        /\ (/\ t = MsgConnect /\ declared = Len(body) /\ Len(body) >= 5
            /\ (body[5] \div 8) % 4 = 3) => ~success
        /\ (/\ t = MsgConnAck /\ declared = 2 /\ Len(body) >= 2
            /\ (res.in[1] \div 2) % 4 # 3
            /\ ~(body[2] \in 0..5)) => (~res.panic /\ res.err = badReturnCodeError)

\* The value of the 7-bit groups of the first k bytes of in, least
\* significant group first.
RECURSIVE GroupsValue(_, _)
GroupsValue(in, k) ==
    IF k = 0 THEN 0 ELSE GroupsValue(in, k - 1) + (in[k] % 128) * (128 ^ (k - 1))

\* The positions among the first 4 bytes of in whose top bit is clear.
Terminators(in) == {i \in 1..Len(in) : i <= 4 /\ in[i] < 128}

\* C12: decodeLength reads bytes until the first one with the top bit clear
\* and returns the value of the groups read, at most 268,435,455; it reads at
\* most 4 bytes; when the first 4 bytes all have the continuation bit set it
\* fails with the length encoding error without reading a 5th byte; when the
\* source ends first it fails with the error of the read.
C12_LengthAtMost4 ==
    res.op = "decodeLength.any" =>
        LET in == res.in
            consumed == Len(in) - Len(res.r)
            ends == Terminators(in)
        IN
        /\ consumed <= 4
        /\ res.r = SubSeq(in, consumed + 1, Len(in))
        /\ ends # {} =>
               \E k \in ends :
                   /\ \A i \in ends : k <= i
                   /\ res.err = nil
                   /\ consumed = k
                   /\ res.v = GroupsValue(in, k)
                   /\ res.v <= MaxPayloadSize
        /\ (ends = {} /\ Len(in) >= 4) =>
               (res.err = badLengthEncodingError /\ consumed = 4)
        /\ (ends = {} /\ Len(in) < 4) => (res.err = EOF /\ consumed = Len(in))

\* Four continuation bytes followed by a fifth byte were decoded: the length
\* encoding error, and the fifth byte is still in the source.
C12_Witness ==
    /\ res.op = "decodeLength.any"
    /\ Len(res.in) = 5
    /\ \A i \in 1..4 : res.in[i] >= 128
    /\ res.err = badLengthEncodingError
    /\ buf = <<res.in[5]>>

\* A string with its two-byte big-endian length in front.
Prefixed(str) == <<Len(str) \div 256, Len(str) % 256>> \o str

\* The CONNECT example packet with a given remaining-length byte: fixed
\* header byte 0x10, the length, protocol name and version, connect flags
\* 0xCE, keep-alive 00 0A, then client id, will topic, will message, username
\* and password.
ExamplePacket(length) ==
    <<16, length>> \o Prefixed(<<77, 81, 73, 115, 100, 112>>) \o <<3, 206, 0, 10>>
        \o Prefixed(<<120, 105, 120, 105, 104, 97, 104, 97>>)
        \o Prefixed(<<116, 111, 112, 105, 99>>)
        \o Prefixed(<<109, 101, 115, 115, 97, 103, 101>>)
        \o Prefixed(<<110, 97, 109, 101>>)
        \o Prefixed(<<112, 119, 100>>)

\* C13 (as amended): encoding the example CONNECT produces fixed header
\* byte 0x10, remaining length 49, connect flags 0xCE, keep-alive 00 0A and
\* the five length-prefixed strings in client id, will topic, will message,
\* username, password order.
C13_ConnectExample ==
    (res.op = "Encode" /\ res.msg = ExampleConnect) =>
        (res.err = nil /\ res.out = ExamplePacket(49) /\ buf = res.out)

\* C13 (as claimed): the same packet with remaining length 54.
C13_AsClaimed ==
    (res.op = "Encode" /\ res.msg = ExampleConnect) =>
        (res.err = nil /\ res.out = ExamplePacket(54))

\* The example CONNECT was encoded, into a packet of 2 + 49 bytes.
C13_Witness ==
    /\ res.op = "Encode"
    /\ res.msg = ExampleConnect
    /\ res.err = nil
    /\ Len(buf) = 51

\* C14: whatever the interleaving of the calls of the goroutines, each on a
\* message and a buffer of its own, a call that has ended has the outcome
\* (bytes written, message, error or panic) of the same call run alone, and
\* the package-level variables are as they were initialised.
C14_Reentrant ==
    /\ calls.pkg = PkgInit
    /\ \A g \in DOMAIN calls.g :
           calls.g[g].pc = "done" => calls.g[g].result = Alone(calls.g[g].job)

\* Two calls have ended whose steps were interleaved: an Encode that failed
\* on its QoS and a decode that returned a PUBACK.
C14_Witness ==
    \E g1, g2 \in DOMAIN calls.g :
        /\ calls.g[g1].pc = "done" /\ calls.g[g1].overlap
        /\ calls.g[g1].job.kind = "Encode"
        /\ calls.g[g1].result.err = badQosError
        /\ calls.g[g2].pc = "done" /\ calls.g[g2].overlap
        /\ calls.g[g2].job.kind = "Decode"
        /\ calls.g[g2].result.err = nil /\ ~calls.g[g2].result.panic
        /\ calls.g[g2].result.msg.type = MsgPubAck

\* C15: setUint16(v) writes the high byte then the low byte of v, and
\* getUint16 on those two bytes returns v: the message id of an encoded
\* PUBACK-family message is on the wire big-endian and decodes to the id that
\* was encoded.
C15_Uint16Lossless ==
    /\ (res.op = "Encode" /\ res.msg.type \in AckTypes /\ res.err = nil) =>
           SubSeq(res.out, 3, 4)
               = <<res.msg.MessageId \div 256, res.msg.MessageId % 256>>
    /\ (Decoding /\ res.orig.type \in AckTypes) =>
           (~res.panic /\ res.err = nil /\ res.msg.MessageId = res.orig.MessageId)

\* C16: when decoding the fixed header fails (the source ends on the type
\* byte or inside the remaining length, or the remaining length has 4
\* continuation bytes), DecodeOneMessage returns that error, the length
\* encoding error for the over-long length, whatever the message type, with
\* no message and without reading anything after the header.
C16_HeaderFailureAborts ==
    (Decoding /\ (res.seen.hdrErr # nil \/ res.seen.hdrAbort # nil)) =>
        /\ ~res.panic
        /\ res.err = (IF res.seen.hdrErr # nil THEN res.seen.hdrErr
                      ELSE res.seen.hdrAbort)
        /\ (Len(res.in) >= 5 /\ \A i \in 2..5 : res.in[i] >= 128)
               => res.err = badLengthEncodingError
        /\ res.r = res.seen.body

\* C17: after a successful decode the Header of the returned message holds
\* the flags of the first byte of the packet: DUP = bit 3, QoS = bits 2-1,
\* RETAIN = bit 0.
C17_HeaderFromWire ==
    (Decoding /\ ~res.panic /\ res.err = nil) =>
        res.msg.Header = [DupFlag |-> (res.in[1] \div 8) % 2 = 1,
                          QosLevel |-> (res.in[1] \div 2) % 4,
                          Retain |-> res.in[1] % 2 = 1]

\* The error a decode ended with, returned or raised.
Failure == IF res.panic THEN res.raised ELSE res.err

\* C18: a decode never reads more bytes after the fixed header than the
\* declared remaining length, and, the declared bytes being there, a field that exceeds what is left of it
\* makes the decode fail with the data-exceeds-packet error before the field
\* is read: a 16-bit id in a packet declaring less than 2 bytes, one of the
\* two bytes of a CONNACK declaring less than 2, a PUBLISH topic whose declared
\* length exceeds the rest of the packet.
C18_Budget ==
    (Decoding /\ res.seen.hdrErr = nil /\ res.seen.hdrAbort = nil
              /\ res.seen.msgType \in 1..11) =>
        LET t == res.seen.msgType
            body == res.seen.body
            declared == res.seen.remainingLength
            consumed == Len(body) - Len(res.r)
        IN
        /\ consumed >= 0 /\ consumed <= declared
        /\ (t \in AckTypes \cup {MsgSubAck} /\ declared < 2 /\ Len(body) >= declared) =>
               (Failure = dataExceedsPacketError /\ consumed = 0)
        /\ (t = MsgConnAck /\ declared < 2 /\ Len(body) >= declared) =>
               (Failure = dataExceedsPacketError /\ consumed = declared)
        /\ (/\ t = MsgPublish /\ declared >= 2 /\ Len(body) >= 2
            /\ BigEndian(body[1], body[2]) > declared - 2) =>
               (Failure = dataExceedsPacketError /\ consumed = 2)

\* C19: a CONNECT that was encoded decodes back successfully with the same
\* optional strings, whatever the flags and whether or not a string whose
\* flag is set is empty: through Connect.Encode and DecodeOneMessage, and
\* through Encode and DecodeRead of the Mqtt struct API.
C19_ConnectOptional ==
    /\ (Decoding /\ res.orig.type = MsgConnect) =>
           /\ ~res.panic /\ res.err = nil
           /\ <<res.msg.WillTopic, res.msg.WillMessage, res.msg.Username, res.msg.Password>>
                  = <<res.orig.WillTopic, res.orig.WillMessage,
                      res.orig.Username, res.orig.Password>>
    /\ (res.op = "DecodeRead" /\ res.sent # <<>>
            /\ res.sent[1].Header.MessageType = MsgConnect) =>
           /\ ~res.panic /\ res.err = nil /\ ~res.isNil
           /\ res.mqtt.ConnectFlags = res.sent[1].ConnectFlags
           /\ <<res.mqtt.WillTopic, res.mqtt.WillMessage, res.mqtt.Username, res.mqtt.Password>>
                  = <<res.sent[1].WillTopic, res.sent[1].WillMessage,
                      res.sent[1].Username, res.sent[1].Password>>

\* C20: no raiseError abort leaves a public decode call as a panic: neither
\* DecodeOneMessage nor DecodeRead ends in a panic that carries the error of
\* a raiseError.
C20_AbortsRecovered ==
    (res.op \in {"DecodeOneMessage", "DecodeRead"}) => ~(res.panic /\ res.raised # nil)

\* C22: the 16-bit prefix that setString writes is the number of string
\* bytes it writes after it, and those are all the bytes of the string.
C22_PrefixTruthful ==
    (res.op = "setString") =>
        /\ res.written = res.len
        /\ BigEndian(res.prefix[1], res.prefix[2]) = res.written

\* The least number of bytes an iteration takes from the budget.
LeastStep(kind) ==
    CASE kind = MsgSubscribe -> 3
      [] kind = MsgSubAck -> 1
      [] kind = MsgUnsubscribe -> 2

\* C21: every iteration of a topic-list loop either aborts or lowers the
\* budget by at least 3 (SUBSCRIBE), 1 (SUBACK), 2 (UNSUBSCRIBE), the budget
\* never falls below 0 in the loop, and every loop that was entered is left.
C21_LoopsTerminate ==
    /\ [][(res.op = "loop" /\ res'.op = "loop") =>
              \/ res'.l.c.err # nil
              \/ /\ res'.l.c.rem <= res.l.c.rem - LeastStep(res.kind)
                 /\ res'.l.c.rem >= 0]_vars
    /\ (res.op = "loop") ~> (res.op = "loop.done")

\* A SUBSCRIBE loop that made two iterations and ended by its condition.
C21_Witness ==
    /\ res.op = "loop.done" /\ res.kind = MsgSubscribe
    /\ res.n >= 2 /\ res.l.c.err = nil /\ res.l.c.rem = 0
    /\ Len(res.l.topics) = 2

====
